---------------------------- MODULE Spec2Model ----------------------------
(***************************************************************************)
(* Login / registration flow of the student-record application.            *)
(*                                                                         *)
(*   screens/LoginScreen.tsx   session bootstrap, form, handleAuth         *)
(*   MahasiswaScreen           handleLogout                                *)
(*   App.tsx                   navigation stack, initial route "Login"     *)
(*                                                                         *)
(* Every device (client) runs its own copy of the screens on its own MMKV  *)
(* storage and its own Firestore cache; all devices share one Firestore    *)
(* collection.  A JavaScript string is a sequence of one-character         *)
(* strings, so that trim and toLowerCase are computed, not assumed.        *)
(* handleAuth is asynchronous: it is cut at its awaits (getDocFromServer,  *)
(* getDocFromCache, setDoc), and everything between two awaits is one      *)
(* step.                                                                   *)
(*                                                                         *)
(* Not modelled: the collection scan of the Mahasiswa screen (it writes    *)
(* nothing), and handleLocalLogout, whose button is rendered only while    *)
(* currentUser is set, which happens only in the step that replaces the    *)
(* screen.  The Firestore SDK is modelled by what the screens rely on: a   *)
(* server read returns the server's document and caches it (a missing      *)
(* document included), a cache read returns what the device cached last or *)
(* fails, and any remote call may fail.                                    *)
(***************************************************************************)
EXTENDS Naturals, Sequences, FiniteSets

VARIABLES
    db,           \* Firestore server: the documents [id, data] of collection "mahasiswa"
    cache,        \* per device: the entries [id, snapshot] of the local Firestore cache
    storage,      \* per device: the MMKV store, a function on the keys that are set
    pc,           \* per device: where the device is (mounted screen, pending await)
    authMode,     \* LoginScreen state: authMode
    form,         \* LoginScreen state: form
    currentUser,  \* LoginScreen state: currentUser ({} is null)
    loading,      \* LoginScreen state: loading
    hydrated,     \* LoginScreen state: hydrated
    alert,        \* the Alert.alert dialog on display ("" when none)
    calls,        \* what the handler that runs (or ran last) has done so far, in order
    docAtStart    \* history: the server's snapshot of the addressed document when the
                  \* pending handleAuth was started (NoDoc when none is pending)

vars ==
    <<db, cache, storage, pc, authMode, form, currentUser, loading, hydrated, alert, calls,
      docAtStart>>

-----------------------------------------------------------------------------
(* Bounds of the model *)

\* The most white space a typed value carries at either end.
MaxPad == 1

\* The devices that use the same Firestore collection.  Device 1 is the one
\* with the rich keyboard below; device 2 is another user's phone.
Clients == {1, 2}

-----------------------------------------------------------------------------
(* Strings *)

Spaces(n) == [i \in 1..n |-> " "]

\* What the user of device c can type into each field.  Device 1 types
\* identifiers that differ only in case and surrounding white space, a
\* white-space-only and a padded credential, a malformed and a padded e-mail;
\* device 2 types one identity that shares device 1's document id.
TypedNim(c) ==
    IF c = 1 THEN {Spaces(MaxPad) \o <<"A">> \o Spaces(MaxPad), <<"a">>} ELSE {<<"a">>}

TypedNama(c) ==
    IF c = 1 THEN {Spaces(MaxPad) \o <<"J">>} ELSE {<<"K">>}

TypedEmail(c) ==
    IF c = 1 THEN {<<"x">>, <<"x", "@", "y", ".", "z">> \o Spaces(MaxPad)}
    ELSE {<<"k", "@", "y", ".", "z">>}

TypedPassword(c) ==
    IF c = 1 THEN {Spaces(MaxPad), <<"p">>, <<"p">> \o Spaces(MaxPad)} ELSE {<<"p">>}

Typed(c, field) ==
    CASE field = "nim" -> TypedNim(c)
      [] field = "nama" -> TypedNama(c)
      [] field = "email" -> TypedEmail(c)
      [] field = "password" -> TypedPassword(c)

\* String.prototype.trim: white space off both ends.
IsWhiteSpace(ch) == ch = " "

RECURSIVE trimStart(_)
trimStart(s) ==
    IF s = <<>> THEN s
    ELSE IF IsWhiteSpace(Head(s)) THEN trimStart(Tail(s)) ELSE s

RECURSIVE trimEnd(_)
trimEnd(s) ==
    IF s = <<>> THEN s
    ELSE IF IsWhiteSpace(s[Len(s)]) THEN trimEnd(SubSeq(s, 1, Len(s) - 1)) ELSE s

trim(s) == trimEnd(trimStart(s))

\* String.prototype.toLowerCase on the letters of the model's alphabet.
lowerChar(ch) ==
    CASE ch = "A" -> "a"
      [] ch = "J" -> "j"
      [] ch = "K" -> "k"
      [] OTHER -> ch

toLowerCase(s) == [i \in 1..Len(s) |-> lowerChar(s[i])]

\* Mutant: the key keeps the letter case.
normalizeNim_caseSensitive(value) == trim(value)

normalizeNim(value) == toLowerCase(trim(value))

trimValue(value) == trim(value)

\* /.+@.+\..+/.test(s): an "@" with a character before it, later a "." with a
\* character between the two and a character after it.
emailRegexTest(s) ==
    \E i, j \in 1..Len(s) :
        /\ s[i] = "@" /\ i >= 2
        /\ s[j] = "." /\ j >= i + 2
        /\ j <= Len(s) - 1

-----------------------------------------------------------------------------
(* Constants of the screens *)

STORAGE_KEYS == [nim |-> "user_nim", nama |-> "user_nama", email |-> "user_email"]

StorageKeyValues == {STORAGE_KEYS.nim, STORAGE_KEYS.nama, STORAGE_KEYS.email}

AUTH_MODES == [login |-> "login", register |-> "register"]

initialFormState == [nim |-> <<>>, nama |-> <<>>, email |-> <<>>, password |-> <<>>]

\* The messages of Alert.alert.
NoAlert == ""
MsgNimRequired == "NIM wajib diisi."
MsgPasswordRequired == "Password wajib diisi."
MsgNamaRequired == "Nama wajib diisi."
MsgEmailRequired == "Email wajib diisi."
MsgEmailFormat == "Format email tidak valid."
MsgConnectivity == "Tidak bisa mengakses data. Periksa koneksi."
MsgConnectivityRequired == "Koneksi diperlukan untuk registrasi. Coba lagi."
MsgDuplicate == "NIM sudah terdaftar."
MsgNotFound == "NIM belum terdaftar."
MsgInvalidCredential == "Password salah."
MsgUnexpected == "Terjadi kesalahan. Coba lagi."

ValidationMessages ==
    {MsgNimRequired, MsgPasswordRequired, MsgNamaRequired, MsgEmailRequired, MsgEmailFormat}

-----------------------------------------------------------------------------
(* Firestore documents and MMKV *)

\* A snapshot whose exists() is false, and one that holds data.
NoDoc == [exists |-> FALSE]
Doc(data) == [exists |-> TRUE, data |-> data]

\* doc(mahasiswaCollection, nimKey): the document id is the key.
docRef(nimKey) == nimKey

\* The server's snapshot of document id.
serverSnapshot(docs, id) ==
    IF \E d \in docs : d.id = id
    THEN Doc((CHOOSE d \in docs : d.id = id).data)
    ELSE NoDoc

\* setDoc(docRef, data): the document at that id is created or replaced.
setDoc(docs, id, data) ==
    {d \in docs : d.id # id} \cup {[id |-> id, data |-> data]}

\* The snapshots a device's cache holds of document id (none, or one).
cachedSnapshots(entries, id) == {e.snapshot : e \in {x \in entries : x.id = id}}

\* The cache after the SDK has seen snapshot of document id.
cachePut(entries, id, snapshot) ==
    {e \in entries : e.id # id} \cup {[id |-> id, snapshot |-> snapshot]}

\* storage.getString(key) is undefined for a key that is not set.
IsSet(st, key) == key \in DOMAIN st

\* JavaScript truthiness of storage.getString(key): set and not the empty string.
Truthy(st, key) == IsSet(st, key) /\ st[key] # <<>>

storageSet(st, key, value) ==
    [k \in (DOMAIN st) \cup {key} |-> IF k = key THEN value ELSE st[k]]

\* Mutant: the email key is not written.
persistUser_withoutEmail(st, user) ==
    storageSet(storageSet(st, STORAGE_KEYS.nim, user.nim), STORAGE_KEYS.nama, user.nama)

\* persistUser: the three storage.set calls (user.email ?? '' : the users this
\* screen builds always carry an email field).
persistUser(st, user) ==
    storageSet(storageSet(storageSet(st, STORAGE_KEYS.nim, user.nim),
                          STORAGE_KEYS.nama, user.nama),
               STORAGE_KEYS.email, user.email)

\* Mutant: only the email key is emptied.
logoutStorage_emailOnly(st) == storageSet(st, STORAGE_KEYS.email, <<>>)

\* handleLogout's loop: storage.set(key, '') for every value of STORAGE_KEYS.
logoutStorage(st) ==
    storageSet(storageSet(storageSet(st, STORAGE_KEYS.nim, <<>>),
                          STORAGE_KEYS.nama, <<>>),
               STORAGE_KEYS.email, <<>>)

-----------------------------------------------------------------------------
(* Pure parts of LoginScreen *)

Null == "null"

\* Mutant: the email's format is not tested.
validateForm_withoutEmailFormat(f, mode) ==
    IF trimValue(f.nim) = <<>> THEN MsgNimRequired
    ELSE IF trimValue(f.password) = <<>> THEN MsgPasswordRequired
    ELSE IF mode = AUTH_MODES.register
         THEN IF trimValue(f.nama) = <<>> THEN MsgNamaRequired
              ELSE IF trimValue(f.email) = <<>> THEN MsgEmailRequired
              ELSE Null
    ELSE Null

\* validateForm: the message, or Null.
validateForm(f, mode) ==
    IF trimValue(f.nim) = <<>> THEN MsgNimRequired
    ELSE IF trimValue(f.password) = <<>> THEN MsgPasswordRequired
    ELSE IF mode = AUTH_MODES.register
         THEN IF trimValue(f.nama) = <<>> THEN MsgNamaRequired
              ELSE IF trimValue(f.email) = <<>> THEN MsgEmailRequired
              ELSE IF ~emailRegexTest(trimValue(f.email)) THEN MsgEmailFormat
              ELSE Null
    ELSE Null

\* Mutant: the identifier goes into the payload as typed.
buildUserPayload_untrimmedNim(f) ==
    [nim |-> f.nim,
     nama |-> trimValue(f.nama),
     email |-> trimValue(f.email),
     password |-> f.password]

buildUserPayload(f) ==
    [nim |-> trimValue(f.nim),
     nama |-> trimValue(f.nama),
     email |-> trimValue(f.email),
     password |-> f.password]

\* {...payload, nimKey}: the document setDoc writes.
registerDocument(f) ==
    [nim |-> buildUserPayload(f).nim,
     nama |-> buildUserPayload(f).nama,
     email |-> buildUserPayload(f).email,
     password |-> buildUserPayload(f).password,
     nimKey |-> normalizeNim(f.nim)]

\* What persistUser and setCurrentUser receive after a registration: the
\* payload (persistUser does not read its password field).
registerUser(f) ==
    [nim |-> buildUserPayload(f).nim,
     nama |-> buildUserPayload(f).nama,
     email |-> buildUserPayload(f).email]

\* Mutant: the session shows the identifier as typed at login.
loginUser_typedNim(data, nimForDisplay) ==
    [nim |-> nimForDisplay,
     nama |-> IF "nama" \in DOMAIN data
              THEN data.nama
              ELSE <<"M", "a", "h", "a", "s", "i", "s", "w", "a">>,
     email |-> IF "email" \in DOMAIN data THEN data.email ELSE <<>>]

\* The user a login builds from the document's data.  The ?? fallbacks apply
\* to absent fields ('Mahasiswa', ''); every document of the collection is
\* written by registerDocument, which sets all of them.
loginUser(data, nimForDisplay) ==
    [nim |-> IF "nim" \in DOMAIN data THEN data.nim ELSE nimForDisplay,
     nama |-> IF "nama" \in DOMAIN data
              THEN data.nama
              ELSE <<"M", "a", "h", "a", "s", "i", "s", "w", "a">>,
     email |-> IF "email" \in DOMAIN data THEN data.email ELSE <<>>]

\* The bootstrap effect's test: nim && nama.
hasSession(st) == Truthy(st, STORAGE_KEYS.nim) /\ Truthy(st, STORAGE_KEYS.nama)

\* Mutant: a registration tests the record's existence before the read's source.
lookupOutcome_duplicateFirst(mode, snapshot, usedCache, f) ==
    IF mode = AUTH_MODES.register
    THEN IF snapshot.exists THEN MsgDuplicate
         ELSE IF usedCache THEN MsgConnectivityRequired ELSE "setDoc"
    ELSE IF ~snapshot.exists THEN MsgNotFound
    ELSE IF snapshot.data.password # f.password THEN MsgInvalidCredential
    ELSE "signIn"

\* Mutant: the credentials are compared after trimming the typed one.
lookupOutcome_trimmedCompare(mode, snapshot, usedCache, f) ==
    IF mode = AUTH_MODES.register /\ usedCache THEN MsgConnectivityRequired
    ELSE IF mode = AUTH_MODES.register
         THEN IF snapshot.exists THEN MsgDuplicate ELSE "setDoc"
    ELSE IF ~snapshot.exists THEN MsgNotFound
    ELSE IF snapshot.data.password # trimValue(f.password) THEN MsgInvalidCredential
    ELSE "signIn"

\* Mutant: a cache-sourced read is refused in login mode too.
lookupOutcome_cacheRefusedInLogin(mode, snapshot, usedCache, f) ==
    IF usedCache THEN MsgConnectivityRequired
    ELSE IF mode = AUTH_MODES.register
         THEN IF snapshot.exists THEN MsgDuplicate ELSE "setDoc"
    ELSE IF ~snapshot.exists THEN MsgNotFound
    ELSE IF snapshot.data.password # f.password THEN MsgInvalidCredential
    ELSE "signIn"

\* The branches of handleAuth below the lookup: the message of the Alert it
\* ends with, or "setDoc" (the registration goes on to write) or "signIn"
\* (the login goes on to persist the user).
lookupOutcome(mode, snapshot, usedCache, f) ==
    IF mode = AUTH_MODES.register /\ usedCache THEN MsgConnectivityRequired
    ELSE IF mode = AUTH_MODES.register
         THEN IF snapshot.exists THEN MsgDuplicate ELSE "setDoc"
    ELSE IF ~snapshot.exists THEN MsgNotFound
    ELSE IF snapshot.data.password # f.password THEN MsgInvalidCredential
    ELSE "signIn"

-----------------------------------------------------------------------------
(* State *)

\* A freshly mounted LoginScreen: the initial values of its useState hooks.
MountLogin(c, trace) ==
    /\ pc' = [pc EXCEPT ![c] = "mount"]
    /\ authMode' = [authMode EXCEPT ![c] = AUTH_MODES.login]
    /\ form' = [form EXCEPT ![c] = initialFormState]
    /\ currentUser' = [currentUser EXCEPT ![c] = {}]
    /\ loading' = [loading EXCEPT ![c] = FALSE]
    /\ hydrated' = [hydrated EXCEPT ![c] = FALSE]
    /\ alert' = [alert EXCEPT ![c] = NoAlert]
    /\ calls' = [calls EXCEPT ![c] = trace]
    /\ docAtStart' = [docAtStart EXCEPT ![c] = NoDoc]

Init ==
    /\ db = {}
    /\ cache = [c \in Clients |-> {}]
    /\ storage = [c \in Clients |-> <<>>]
    /\ pc = [c \in Clients |-> "mount"]
    /\ authMode = [c \in Clients |-> AUTH_MODES.login]
    /\ form = [c \in Clients |-> initialFormState]
    /\ currentUser = [c \in Clients |-> {}]
    /\ loading = [c \in Clients |-> FALSE]
    /\ hydrated = [c \in Clients |-> FALSE]
    /\ alert = [c \in Clients |-> NoAlert]
    /\ calls = [c \in Clients |-> <<>>]
    /\ docAtStart = [c \in Clients |-> NoDoc]

\* The form is on display and takes input: hydrated, no dialog over it.
FormShown(c) == pc[c] = "form" /\ hydrated[c] /\ alert[c] = NoAlert

\* nimKey of the handleAuth that device c runs.
nimKeyOf(c) == normalizeNim(form[c].nim)

-----------------------------------------------------------------------------
(* Steps *)

\* The bootstrap effect of LoginScreen, run once after mount.
Bootstrap(c) ==
    /\ pc[c] = "mount"
    /\ IF hasSession(storage[c])
       THEN /\ currentUser' = [currentUser EXCEPT ![c] =
                   {[nim |-> storage[c][STORAGE_KEYS.nim],
                     nama |-> storage[c][STORAGE_KEYS.nama],
                     email |-> IF IsSet(storage[c], STORAGE_KEYS.email)
                               THEN storage[c][STORAGE_KEYS.email] ELSE <<>>]}]
            /\ pc' = [pc EXCEPT ![c] = "Mahasiswa"]
            /\ UNCHANGED hydrated
       ELSE /\ hydrated' = [hydrated EXCEPT ![c] = TRUE]
            /\ pc' = [pc EXCEPT ![c] = "form"]
            /\ UNCHANGED currentUser
    /\ calls' = [calls EXCEPT ![c] = <<>>]
    /\ UNCHANGED <<db, cache, storage, authMode, form, loading, alert, docAtStart>>

\* The user closes the Alert dialog.
DismissAlert(c) ==
    /\ alert[c] # NoAlert
    /\ alert' = [alert EXCEPT ![c] = NoAlert]
    /\ calls' = [calls EXCEPT ![c] = <<>>]
    /\ UNCHANGED <<db, cache, storage, pc, authMode, form, currentUser, loading, hydrated,
                   docAtStart>>

\* updateField(field)(value).  The nama and email inputs are rendered in
\* register mode only.  (The user is taken not to type while the spinner of a
\* pending handleAuth shows.)
updateField(c, field, value) ==
    /\ FormShown(c)
    /\ ~loading[c]
    /\ field \in {"nama", "email"} => authMode[c] = AUTH_MODES.register
    /\ form' = [form EXCEPT ![c][field] = value]
    /\ UNCHANGED <<db, cache, storage, pc, authMode, currentUser, loading, hydrated, alert,
                   calls, docAtStart>>

switchMode(c, targetMode) ==
    /\ FormShown(c)
    /\ ~loading[c]
    /\ authMode[c] # targetMode
    /\ authMode' = [authMode EXCEPT ![c] = targetMode]
    /\ form' = [form EXCEPT ![c] = initialFormState]
    /\ UNCHANGED <<db, cache, storage, pc, currentUser, loading, hydrated, alert, calls,
                   docAtStart>>

\* handleAuth up to its first await: validation, then getDocFromServer is
\* issued.  The button is rendered only while loading is false.
handleAuthStart(c) ==
    /\ FormShown(c)
    /\ ~loading[c]
    /\ IF validateForm(form[c], authMode[c]) # Null
       THEN /\ alert' = [alert EXCEPT ![c] = validateForm(form[c], authMode[c])]
            /\ UNCHANGED <<pc, loading, docAtStart>>
       ELSE /\ loading' = [loading EXCEPT ![c] = TRUE]
            /\ pc' = [pc EXCEPT ![c] = "getDocFromServer"]
            /\ docAtStart' = [docAtStart EXCEPT ![c] = serverSnapshot(db, docRef(nimKeyOf(c)))]
            /\ UNCHANGED alert
    /\ calls' = [calls EXCEPT ![c] = <<>>]
    /\ UNCHANGED <<db, cache, storage, authMode, form, currentUser, hydrated>>

\* Mutant: every exit of handleAuth resets the form.
Reject_resetsForm(c, message, trace) ==
    /\ alert' = [alert EXCEPT ![c] = message]
    /\ loading' = [loading EXCEPT ![c] = FALSE]
    /\ pc' = [pc EXCEPT ![c] = "form"]
    /\ calls' = [calls EXCEPT ![c] = trace]
    /\ docAtStart' = [docAtStart EXCEPT ![c] = NoDoc]
    /\ form' = [form EXCEPT ![c] = initialFormState]
    /\ UNCHANGED <<storage, authMode, currentUser, hydrated>>

\* return after an Alert inside the try: the finally block sets loading false.
Reject(c, message, trace) ==
    /\ alert' = [alert EXCEPT ![c] = message]
    /\ loading' = [loading EXCEPT ![c] = FALSE]
    /\ pc' = [pc EXCEPT ![c] = "form"]
    /\ calls' = [calls EXCEPT ![c] = trace]
    /\ docAtStart' = [docAtStart EXCEPT ![c] = NoDoc]
    /\ UNCHANGED <<storage, authMode, form, currentUser, hydrated>>

\* persistUser, setCurrentUser, resetForm, navigation.replace('Mahasiswa'),
\* then the finally block.
SignIn(c, user, trace) ==
    /\ storage' = [storage EXCEPT ![c] = persistUser(storage[c], user)]
    /\ currentUser' = [currentUser EXCEPT ![c] = {user}]
    /\ form' = [form EXCEPT ![c] = initialFormState]
    /\ pc' = [pc EXCEPT ![c] = "Mahasiswa"]
    /\ loading' = [loading EXCEPT ![c] = FALSE]
    /\ calls' = [calls EXCEPT ![c] = trace \o <<"persistUser", "navigation.replace">>]
    /\ docAtStart' = [docAtStart EXCEPT ![c] = NoDoc]
    /\ UNCHANGED <<authMode, hydrated, alert>>

\* Mutant: a registration persists the user before it awaits setDoc.
afterLookup_persistsBeforeWrite(c, snapshot, usedCache, trace) ==
    IF lookupOutcome(authMode[c], snapshot, usedCache, form[c]) = "setDoc"
    THEN /\ pc' = [pc EXCEPT ![c] = "setDoc"]
         /\ storage' = [storage EXCEPT ![c] = persistUser(storage[c], registerUser(form[c]))]
         /\ calls' = [calls EXCEPT ![c] = trace \o <<"persistUser">>]
         /\ UNCHANGED <<authMode, form, currentUser, loading, hydrated, alert, docAtStart>>
    ELSE IF lookupOutcome(authMode[c], snapshot, usedCache, form[c]) = "signIn"
    THEN SignIn(c, loginUser(snapshot.data, trimValue(form[c].nim)), trace)
    ELSE Reject(c, lookupOutcome(authMode[c], snapshot, usedCache, form[c]), trace)

\* handleAuth from the resolved snapshot to its next await or its end.
afterLookup(c, snapshot, usedCache, trace) ==
    IF lookupOutcome(authMode[c], snapshot, usedCache, form[c]) = "setDoc"
    THEN /\ pc' = [pc EXCEPT ![c] = "setDoc"]
         /\ calls' = [calls EXCEPT ![c] = trace]
         /\ UNCHANGED <<storage, authMode, form, currentUser, loading, hydrated, alert,
                        docAtStart>>
    ELSE IF lookupOutcome(authMode[c], snapshot, usedCache, form[c]) = "signIn"
    THEN SignIn(c, loginUser(snapshot.data, trimValue(form[c].nim)), trace)
    ELSE Reject(c, lookupOutcome(authMode[c], snapshot, usedCache, form[c]), trace)

\* getDocFromServer resolves with the server's snapshot, which the SDK also
\* puts into the device's cache.
ServerReadOk(c) ==
    /\ pc[c] = "getDocFromServer"
    /\ cache' = [cache EXCEPT ![c] =
           cachePut(cache[c], docRef(nimKeyOf(c)), serverSnapshot(db, docRef(nimKeyOf(c))))]
    /\ afterLookup(c, serverSnapshot(db, docRef(nimKeyOf(c))), FALSE,
                   calls[c] \o <<"getDocFromServer.ok">>)
    /\ UNCHANGED db

\* getDocFromServer rejects: getDocFromCache is issued.
ServerReadFail(c) ==
    /\ pc[c] = "getDocFromServer"
    /\ pc' = [pc EXCEPT ![c] = "getDocFromCache"]
    /\ calls' = [calls EXCEPT ![c] = calls[c] \o <<"getDocFromServer.fail">>]
    /\ UNCHANGED <<db, cache, storage, authMode, form, currentUser, loading, hydrated, alert,
                   docAtStart>>

\* getDocFromCache resolves with the snapshot the cache holds.
CacheReadOk(c) ==
    /\ pc[c] = "getDocFromCache"
    /\ \E snapshot \in cachedSnapshots(cache[c], docRef(nimKeyOf(c))) :
           afterLookup(c, snapshot, TRUE, calls[c] \o <<"getDocFromCache.ok">>)
    /\ UNCHANGED <<db, cache>>

\* getDocFromCache rejects too.
CacheReadFail(c) ==
    /\ pc[c] = "getDocFromCache"
    /\ Reject(c, MsgConnectivity, calls[c] \o <<"getDocFromCache.fail">>)
    /\ UNCHANGED <<db, cache>>

\* setDoc resolves: the document is on the server and in the device's cache.
WriteOk(c) ==
    /\ pc[c] = "setDoc"
    /\ db' = setDoc(db, docRef(nimKeyOf(c)), registerDocument(form[c]))
    /\ cache' = [cache EXCEPT ![c] =
           cachePut(cache[c], docRef(nimKeyOf(c)), Doc(registerDocument(form[c])))]
    /\ SignIn(c, registerUser(form[c]), calls[c] \o <<"setDoc.ok">>)

\* setDoc rejects: the outer catch.
WriteFail(c) ==
    /\ pc[c] = "setDoc"
    /\ Reject(c, MsgUnexpected, calls[c] \o <<"setDoc.fail">>)
    /\ UNCHANGED <<db, cache>>

\* handleLogout of the Mahasiswa screen, and the LoginScreen that
\* navigation.replace('Login') mounts.
handleLogout(c) ==
    /\ pc[c] = "Mahasiswa"
    /\ storage' = [storage EXCEPT ![c] = logoutStorage(storage[c])]
    /\ MountLogin(c, <<"handleLogout">>)
    /\ UNCHANGED <<db, cache>>

\* The application is closed and started again: the stack starts at "Login";
\* MMKV and the Firestore cache are persistent.
Relaunch(c) ==
    /\ pc[c] \in {"form", "Mahasiswa"}
    /\ alert[c] = NoAlert
    /\ MountLogin(c, <<>>)
    /\ UNCHANGED <<db, cache, storage>>

Next ==
    \E c \in Clients :
        \/ Bootstrap(c)
        \/ DismissAlert(c)
        \/ \E field \in {"nim", "nama", "email", "password"} :
               \E value \in Typed(c, field) : updateField(c, field, value)
        \/ \E targetMode \in {AUTH_MODES.login, AUTH_MODES.register} : switchMode(c, targetMode)
        \/ handleAuthStart(c)
        \/ ServerReadOk(c)
        \/ ServerReadFail(c)
        \/ CacheReadOk(c)
        \/ CacheReadFail(c)
        \/ WriteOk(c)
        \/ WriteFail(c)
        \/ handleLogout(c)
        \/ Relaunch(c)

Spec == Init /\ [][Next]_vars

-----------------------------------------------------------------------------
(* Vocabulary of the properties *)

Register == AUTH_MODES.register
Login == AUTH_MODES.login

InFlight == {"getDocFromServer", "getDocFromCache", "setDoc"}

\* Two identifiers that differ at most in letter case and surrounding white space.
SameIdentifier(x, y) == toLowerCase(trim(x)) = toLowerCase(trim(y))

\* The Identity Records stored for identifier x.
RecordsOf(docs, x) == {d \in docs : SameIdentifier(d.data.nim, x)}

\* The Session Record with these three values, as the Local Session Store holds it.
SessionOf(nim, nama, email) ==
    [k \in StorageKeyValues |->
        IF k = "user_nim" THEN nim ELSE IF k = "user_nama" THEN nama ELSE email]

\* In this step device c's handler gets `event` done.
Did(c, event) ==
    /\ Len(calls'[c]) > Len(calls[c])
    /\ calls'[c][Len(calls[c]) + 1] = event

\* In this step the lookup of device c's submit is answered, by the server or,
\* after the server read failed, by the cache.
ServerAnswered(c) == pc[c] = "getDocFromServer" /\ Did(c, "getDocFromServer.ok")
CacheAnswered(c) == pc[c] = "getDocFromCache" /\ Did(c, "getDocFromCache.ok")

\* The snapshot that answer carries.
Answer(c) ==
    IF pc[c] = "getDocFromServer"
    THEN serverSnapshot(db, toLowerCase(trim(form[c].nim)))
    ELSE CHOOSE snapshot \in cachedSnapshots(cache[c], toLowerCase(trim(form[c].nim))) : TRUE

\* In this step device c presses the submit button.
Submits(c) == FormShown(c) /\ (alert'[c] # NoAlert \/ pc'[c] = "getDocFromServer")

\* In this step a submit of device c ends: in an Alert, or in success.
Rejected(c) == pc[c] \in InFlight \cup {"form"} /\ alert[c] = NoAlert /\ alert'[c] # NoAlert
Succeeds(c) == pc[c] \in InFlight /\ pc'[c] = "Mahasiswa"
Ends(c) == Rejected(c) \/ Succeeds(c)

\* The server's snapshot of the addressed document when the submit that ends
\* in this step was started.
StartDoc(c) ==
    IF pc[c] = "form" THEN serverSnapshot(db, toLowerCase(trim(form[c].nim))) ELSE docAtStart[c]

\* What the submit of device c leaves alone when it changes nothing.
NothingWritten(c) == db' = db /\ storage' = storage /\ pc'[c] # "Mahasiswa"

-----------------------------------------------------------------------------
(* C1 *)

\* The result of a successful registration from the form of device c: one
\* record under the key, the others untouched, the session of the trimmed
\* identifier, name and email, the form empty, the Listing screen.
RegisterDone(c) ==
    /\ Succeeds(c)
    /\ {d \in db' : d.id = toLowerCase(trim(form[c].nim))}
         = {[id |-> toLowerCase(trim(form[c].nim)),
             data |-> [nim |-> trim(form[c].nim),
                       nama |-> trim(form[c].nama),
                       email |-> trim(form[c].email),
                       password |-> form[c].password,
                       nimKey |-> toLowerCase(trim(form[c].nim))]]}
    /\ RecordsOf(db', form[c].nim) = {d \in db' : d.id = toLowerCase(trim(form[c].nim))}
    /\ {d \in db' : d.id # toLowerCase(trim(form[c].nim))}
         = {d \in db : d.id # toLowerCase(trim(form[c].nim))}
    /\ storage'[c] = SessionOf(trim(form[c].nim), trim(form[c].nama), trim(form[c].email))
    /\ form'[c] = [nim |-> <<>>, nama |-> <<>>, email |-> <<>>, password |-> <<>>]

\* The part of C1 that holds whether or not the write succeeds: a valid
\* register submit issues the server read, and a server answer of "no record
\* under the key" sends it on to the write with nothing changed yet.
RegisterReachesWrite(c) ==
    /\ Submits(c) /\ validateForm(form[c], Register) = Null
          => pc'[c] = "getDocFromServer" /\ db' = db /\ storage' = storage
    /\ ServerAnswered(c) /\ RecordsOf(db, form[c].nim) = {}
          => pc'[c] = "setDoc" /\ db' = db /\ storage' = storage

\* C1 as amended: a register submit whose inputs pass validation, whose key
\* has no Identity Record when the server read answers, and whose remote write
\* succeeds, ends in success with exactly one Identity Record under the
\* normalized key, the Session Record set to the trimmed identifier, name and
\* email of the form, and the four Form State fields empty.
C1_RegisterCreatesRecordAndSession ==
    [][\A c \in Clients :
          authMode[c] = Register =>
              /\ RegisterReachesWrite(c)
              /\ pc[c] = "setDoc" /\ Did(c, "setDoc.ok") => RegisterDone(c)]_vars

\* C1 as stated: every such submit, once the server read has answered "no
\* record", ends in that success (whatever becomes of the write).
C1_AsStated ==
    [][\A c \in Clients :
          authMode[c] = Register =>
              /\ RegisterReachesWrite(c)
              /\ pc[c] = "setDoc" /\ Ends(c) => RegisterDone(c)]_vars

\* Device 1 has registered " A " and is signed in as "A", name and email trimmed.
C1_Witness ==
    /\ pc[1] = "Mahasiswa"
    /\ calls[1] = <<"getDocFromServer.ok", "setDoc.ok", "persistUser", "navigation.replace">>
    /\ storage[1] = SessionOf(<<"A">>, <<"J">>, <<"x", "@", "y", ".", "z">>)
    /\ \E d \in db : d.id = <<"a">> /\ d.data.nim = <<"A">> /\ d.data.nama = <<"J">>
    /\ form[1] = initialFormState

-----------------------------------------------------------------------------
(* C2 *)

\* C2 as amended: once an identifier is registered it stays registered, and a
\* register submit with an identifier that differs from a registered one only
\* in letter case or surrounding white space, whose existence check is
\* answered by the server read, is rejected with 'NIM sudah terdaftar.'; the
\* stored records and the Session Record are unchanged by the rejected submit.
C2_DuplicateRejected ==
    [][/\ \A d \in db : RecordsOf(db', d.data.nim) # {}
       /\ \A c \in Clients :
             authMode[c] = Register /\ ServerAnswered(c) /\ RecordsOf(db, form[c].nim) # {}
                 => alert'[c] = MsgDuplicate /\ NothingWritten(c) /\ pc'[c] = "form"]_vars

\* C2 as stated: every register submit with valid inputs that is started when
\* a record of the same identifier (up to case and white space) exists ends in
\* 'NIM sudah terdaftar.' with the records and the session unchanged.
C2_AsStated ==
    [][\A c \in Clients :
          /\ authMode[c] = Register
          /\ Ends(c)
          /\ validateForm(form[c], Register) = Null
          /\ StartDoc(c).exists
          => alert'[c] = MsgDuplicate /\ NothingWritten(c)]_vars

\* " A " is registered and device 1's registration of "a" has been rejected
\* as a duplicate after a server read.
C2_Witness ==
    /\ alert[1] = MsgDuplicate
    /\ calls[1] = <<"getDocFromServer.ok">>
    /\ form[1].nim = <<"a">>
    /\ \E d \in db : d.data.nim = <<"A">>

-----------------------------------------------------------------------------
(* C3 *)

\* C3 as amended: a login submit that passes validation and whose lookup
\* (the server read, or the cache read after the server read failed) returns
\* the Identity Record of the identifier, with a credential that is not
\* exactly the credential of that record, ends in 'Password salah.', never in
\* 'NIM belum terdaftar.', and leaves the Session Record unchanged.
C3_WrongCredentialRejected ==
    [][\A c \in Clients :
          /\ authMode[c] = Login
          /\ ServerAnswered(c) \/ CacheAnswered(c)
          /\ Answer(c).exists
          /\ Answer(c).data.password # form[c].password
          => /\ SameIdentifier(Answer(c).data.nim, form[c].nim)
             /\ alert'[c] = MsgInvalidCredential
             /\ alert'[c] # MsgNotFound
             /\ storage'[c] = storage[c]
             /\ NothingWritten(c)]_vars

\* C3 as stated: every login submit for an identifier whose record exists,
\* with a credential other than the stored one, ends in 'Password salah.'
\* with the Session Record unchanged.
C3_AsStated ==
    [][\A c \in Clients :
          /\ authMode[c] = Login
          /\ Ends(c)
          /\ StartDoc(c).exists
          /\ StartDoc(c).data.password # form[c].password
          => alert'[c] = MsgInvalidCredential /\ storage'[c] = storage[c]]_vars

\* Device 1 has typed "p " for a record whose credential is "p" and sees
\* 'Password salah.' with no session stored.
C3_Witness ==
    /\ alert[1] = MsgInvalidCredential
    /\ authMode[1] = Login
    /\ form[1].password = <<"p">> \o Spaces(MaxPad)
    /\ \E d \in RecordsOf(db, form[1].nim) : d.data.password = <<"p">>
    /\ ~hasSession(storage[1])

-----------------------------------------------------------------------------
(* C4 *)

-----------------------------------------------------------------------------
(* C5 *)

\* C5 as amended: a registration stores its credential and the three values
\* of its Session Record (the trimmed identifier in its original case, the
\* name, the email) in the Identity Record; a login submit with an identifier
\* that normalizes to the same key and with exactly that credential, whose
\* lookup (server read, or cache read after the server read failed) returns
\* that record, succeeds and sets the Session Record to the same three values.
C5_RegisterLoginRoundTrip ==
    [][\A c \in Clients :
          /\ authMode[c] = Register /\ pc[c] = "setDoc" /\ Did(c, "setDoc.ok")
                => \E d \in RecordsOf(db', form[c].nim) :
                       /\ d.data.password = form[c].password
                       /\ d.data.nim = trim(form[c].nim)
                       /\ storage'[c] = SessionOf(d.data.nim, d.data.nama, d.data.email)
          /\ /\ authMode[c] = Login
             /\ ServerAnswered(c) \/ CacheAnswered(c)
             /\ Answer(c).exists
             /\ Answer(c).data.password = form[c].password
             => /\ SameIdentifier(Answer(c).data.nim, form[c].nim)
                /\ Succeeds(c)
                /\ storage'[c] =
                     SessionOf(Answer(c).data.nim, Answer(c).data.nama, Answer(c).data.email)
                /\ form'[c] = initialFormState]_vars

\* C5 as stated: every login submit with the identifier (up to case and white
\* space) and the exact credential of a record that exists when the submit
\* starts succeeds with the session of that record.
C5_AsStated ==
    [][\A c \in Clients :
          /\ authMode[c] = Login
          /\ Ends(c)
          /\ StartDoc(c).exists
          /\ StartDoc(c).data.password = form[c].password
          => /\ Succeeds(c)
             /\ storage'[c] = SessionOf(StartDoc(c).data.nim, StartDoc(c).data.nama,
                                        StartDoc(c).data.email)]_vars

\* Device 2, which can only type "a", has logged in to the record device 1
\* registered as " A " and holds the session device 1's registration set.
C5_Witness ==
    /\ pc[2] = "Mahasiswa"
    /\ calls[2] = <<"getDocFromServer.ok", "persistUser", "navigation.replace">>
    /\ storage[2] = SessionOf(<<"A">>, <<"J">>, <<"x", "@", "y", ".", "z">>)
    /\ storage[1] = storage[2]
    /\ \E d \in db : d.data.nim = <<"A">> /\ d.data.password = <<"p">>

-----------------------------------------------------------------------------
(* C6 *)

\* A Local Session Store key that is cleared: not set, or set to ''.
Cleared(st, key) == ~IsSet(st, key) \/ st[key] = <<>>

\* C6: the logout of the Listing screen leaves all three Local Session Store
\* keys cleared, whatever session was stored, and the Session Bootstrap that
\* follows marks the form ready to render and does not go to the Listing
\* screen.
C6_LogoutThenBootstrapShowsForm ==
    [][\A c \in Clients :
          /\ pc[c] = "Mahasiswa" /\ calls'[c] = <<"handleLogout">>
                => /\ \A key \in {"user_nim", "user_nama", "user_email"} :
                          Cleared(storage'[c], key)
                   /\ pc'[c] = "mount"
                   /\ db' = db
          /\ pc[c] = "mount" /\ calls[c] = <<"handleLogout">>
                => /\ \A key \in {"user_nim", "user_nama", "user_email"} :
                          Cleared(storage[c], key)
                   /\ pc'[c] # "mount" => /\ hydrated'[c]
                                          /\ pc'[c] = "form"
                                          /\ storage'[c] = storage[c]]_vars

\* Device 1 registered, logged out and was bootstrapped again: its three keys
\* are '' and its form is ready.
C6_Witness ==
    /\ pc[1] = "form"
    /\ hydrated[1]
    /\ storage[1] = SessionOf(<<>>, <<>>, <<>>)
    /\ \E d \in db : d.data.nim = <<"A">>

-----------------------------------------------------------------------------
(* C7 *)

\* C7: a register submit whose lookup is answered by the cache read is
\* rejected with 'Koneksi diperlukan untuk registrasi. Coba lagi.', whether
\* the cached snapshot exists or not; no record is written, the Session
\* Record is unchanged and no navigation is signalled.
C7_RegisterFromCacheRefused ==
    [][\A c \in Clients :
          authMode[c] = Register /\ CacheAnswered(c)
              => /\ alert'[c] = MsgConnectivityRequired
                 /\ db' = db
                 /\ storage' = storage
                 /\ pc'[c] = "form"
                 /\ \A i \in 1..Len(calls'[c]) :
                        calls'[c][i] \notin {"setDoc.ok", "persistUser", "navigation.replace"}]_vars

\* Both devices were refused after a cache read: device 1's cache holds the
\* snapshot of a missing document, device 2's the record.
C7_Witness ==
    /\ alert[1] = MsgConnectivityRequired
    /\ alert[2] = MsgConnectivityRequired
    /\ cachedSnapshots(cache[1], <<"a">>) = {NoDoc}
    /\ \E snapshot \in cachedSnapshots(cache[2], <<"a">>) : snapshot.exists

-----------------------------------------------------------------------------
(* C8 *)

\* C8: the cache read is issued only by the failure of the server read of the
\* same submit (same form, hence same key), and when the cache read fails too
\* the submit ends in 'Tidak bisa mengakses data. Periksa koneksi.' with no
\* record written, the Session Record and the form unchanged and no
\* navigation, in either mode.
C8_BothReadsFail ==
    [][\A c \in Clients :
          /\ pc'[c] = "getDocFromCache" /\ pc[c] # "getDocFromCache"
                => /\ pc[c] = "getDocFromServer"
                   /\ Did(c, "getDocFromServer.fail")
                   /\ form'[c] = form[c]
                   /\ db' = db /\ storage' = storage
          /\ pc[c] = "getDocFromCache" => calls[c] = <<"getDocFromServer.fail">>
          /\ Did(c, "getDocFromCache.ok") \/ Did(c, "getDocFromCache.fail")
                => pc[c] = "getDocFromCache"
          /\ Did(c, "getDocFromCache.fail")
                => /\ alert'[c] = MsgConnectivity
                   /\ db' = db
                   /\ storage' = storage
                   /\ form'[c] = form[c]
                   /\ authMode'[c] = authMode[c]
                   /\ pc'[c] = "form"]_vars

\* Both reads failed on both devices: device 1 in register mode, device 2 in
\* login mode, each with its form as submitted.
C8_Witness ==
    /\ alert[1] = MsgConnectivity /\ authMode[1] = Register
    /\ alert[2] = MsgConnectivity /\ authMode[2] = Login
    /\ calls[1] = <<"getDocFromServer.fail", "getDocFromCache.fail">>
    /\ calls[2] = calls[1]
    /\ validateForm(form[1], Register) = Null
    /\ validateForm(form[2], Login) = Null

-----------------------------------------------------------------------------
(* C9 *)

\* The failures of validation as the claim lists them.
FailsValidation(f, mode) ==
    \/ trim(f.nim) = <<>>
    \/ f.password = <<>>
    \/ /\ mode = Register
       /\ \/ f.nama = <<>>
          \/ f.email = <<>>
          \/ ~emailRegexTest(trim(f.email))

\* C9: a submit whose inputs fail validation ends in a validation message,
\* and a submit that ends in a validation message has issued no server read,
\* no cache read and no write and leaves the remote store, the caches, the
\* Session Record and the form unchanged.
C9_ValidationBeforeRemote ==
    [][\A c \in Clients :
          /\ Submits(c) /\ FailsValidation(form[c], authMode[c])
                => alert'[c] \in ValidationMessages
          /\ Submits(c) /\ alert'[c] # NoAlert
                => /\ alert'[c] \in ValidationMessages
                   /\ pc'[c] = "form"
                   /\ calls'[c] = <<>>
                   /\ db' = db
                   /\ cache' = cache
                   /\ storage' = storage
                   /\ form' = form]_vars

\* Device 1's registration with the email "x" was refused for its format; no
\* call was made and the store is empty.
C9_Witness ==
    /\ alert[1] = MsgEmailFormat
    /\ form[1].email = <<"x">>
    /\ authMode[1] = Register
    /\ pc[1] = "form"
    /\ calls[1] = <<>>
    /\ db = {}

-----------------------------------------------------------------------------
(* C10 *)

\* C10: in every reachable state the three Session Record fields of a device
\* are all absent or all present, whether "present" is read as "the key is
\* set" or as "the key holds a non-empty value".
C10_SessionAllOrNothing ==
    \A c \in Clients :
        /\ \/ \A key \in {"user_nim", "user_nama", "user_email"} : IsSet(storage[c], key)
           \/ \A key \in {"user_nim", "user_nama", "user_email"} : ~IsSet(storage[c], key)
        /\ \/ \A key \in {"user_nim", "user_nama", "user_email"} : Truthy(storage[c], key)
           \/ \A key \in {"user_nim", "user_nama", "user_email"} : ~Truthy(storage[c], key)

\* Device 1 holds a session in all three keys while device 2, logged out,
\* holds '' in all three.
C10_Witness ==
    /\ pc[1] = "Mahasiswa"
    /\ \A key \in {"user_nim", "user_nama", "user_email"} : Truthy(storage[1], key)
    /\ storage[2] = SessionOf(<<>>, <<>>, <<>>)

-----------------------------------------------------------------------------
(* C11 *)

\* Event a comes before event b in a handler's trace.
Before(trace, a, b) ==
    \E i, j \in 1..Len(trace) : i < j /\ trace[i] = a /\ trace[j] = b

Occurs(trace, a) == \E i \in 1..Len(trace) : trace[i] = a

\* C11: a submit persists the Session Record only in the step that ends it in
\* success; in that step a registration's write has completed (the record is
\* on the server) before the session is persisted, and in both modes the
\* session is persisted before the navigation to the Listing screen is
\* signalled.  While the write is pending nothing is persisted, and when the
\* write fails the session is not persisted and no navigation is signalled.
C11_SideEffectOrder ==
    [][\A c \in Clients :
          /\ pc[c] \in InFlight
                => /\ ~Occurs(calls[c], "persistUser")
                   /\ ~Occurs(calls[c], "navigation.replace")
                   /\ ~hasSession(storage[c])
          /\ pc[c] \in InFlight /\ storage'[c] # storage[c] => Succeeds(c)
          /\ Succeeds(c)
                => /\ Before(calls'[c], "persistUser", "navigation.replace")
                   /\ hasSession(storage'[c])
                   /\ authMode[c] = Register
                         => /\ Before(calls'[c], "setDoc.ok", "persistUser")
                            /\ pc[c] = "setDoc"
                            /\ RecordsOf(db', form[c].nim) # {}
                   /\ authMode[c] = Login => ~Occurs(calls'[c], "setDoc.ok")
          /\ Did(c, "setDoc.fail")
                => /\ storage' = storage
                   /\ db' = db
                   /\ pc'[c] = "form"
                   /\ ~Occurs(calls'[c], "persistUser")
                   /\ ~Occurs(calls'[c], "navigation.replace")]_vars

\* Device 1's registration wrote, persisted and navigated, in that order;
\* device 2's write failed and it has neither a session nor left the form.
C11_Witness ==
    /\ pc[1] = "Mahasiswa"
    /\ calls[1] = <<"getDocFromServer.ok", "setDoc.ok", "persistUser", "navigation.replace">>
    /\ hasSession(storage[1])
    /\ alert[2] = MsgUnexpected
    /\ calls[2] = <<"getDocFromServer.ok", "setDoc.fail">>
    /\ storage[2] = <<>>
    /\ pc[2] = "form"

-----------------------------------------------------------------------------
(* C12 *)

\* C12: under any interleaving of the devices' submits an Identity Record is
\* created once and never updated or deleted: every record of the remote
\* store is still there, field for field, after every step, and no register
\* submit ends in success for a key whose record already exists.
C12_AsStated ==
    [][/\ \A d \in db : d \in db'
       /\ \A c \in Clients :
             Succeeds(c) /\ authMode[c] = Register
                => RecordsOf(db, form[c].nim) = {}]_vars

=============================================================================
